---- MODULE Spec2Model ----
(***************************************************************************)
(* RedDb: an in-process document store.  An index (HashMap<Uuid,           *)
(* Mutex<Vec<u8>>> behind one RwLock) maps a generated id to the encoded   *)
(* payload of a document; every mutation is appended to a log that is      *)
(* replayed at start-up.  Each public call of a thread is a sequence of    *)
(* steps; a step is what the thread does between two lock operations.      *)
(***************************************************************************)
EXTENDS Integers, Sequences, FiniteSets, TLC

\* ---------------------------------------------------------------- bounds
MaxIds == 3      \* ids Uuid::new_v4 can still hand out
MaxOps == 3      \* public calls two racing threads start in one behaviour
MaxSeqOps == 3   \* public calls a single caller makes in one behaviour
MaxBatch == 2    \* longest Vec handed to insert
NInserters == 2  \* threads that call insert_one once each
MaxLines == 3    \* longest file Store::new is given
MaxLoaded == 2   \* documents in the file RedDb::new starts from

Inserters == 1 .. NInserters
Reader == NInserters + 1
Threads == Inserters \cup {Reader}
Racers == {1, 2}
Caller == CHOOSE t \in Threads : \A u \in Threads : t <= u
Ids == 1 .. MaxIds

\* TestStruct { foo: String }, as the bytes of foo.
One == <<111, 110, 101>>
Two == <<116, 119, 111>>
Values == {One, Two}

\* ------------------------------------------------------------ serializer
\* RON text of TestStruct { foo }: (foo:"<foo>")\n
RonPrefix == <<40, 102, 111, 111, 58, 34>>
RonSuffix == <<34, 41, 10>>
DecodeError == <<"DeserializationError">>

Serialize(value) == RonPrefix \o value \o RonSuffix

Deserialize(bytes) ==
  LET n == Len(bytes)
      p == Len(RonPrefix)
      s == Len(RonSuffix)
  IN  IF /\ n >= p + s
         /\ SubSeq(bytes, 1, p) = RonPrefix
         /\ SubSeq(bytes, n - s + 1, n) = RonSuffix
      THEN SubSeq(bytes, p + 1, n - s)
      ELSE DecodeError

\* Document::new(id, value)
create_doc(id, value) == [id |-> id, data |-> value]

\* ----------------------------------------------------------------- state
VARIABLES
  data,     \* RedDb.data: the index, id -> encoded payload
  inner,    \* holder of the Mutex of each entry
  writer,   \* holder of the RwLock in write mode
  readers,  \* holders of the RwLock in read mode
  log,      \* the storage file: one Document per line
  issued,   \* every id Uuid::new_v4 has returned
  pc,       \* where each thread stands
  op,       \* the public call each thread is in
  arg,      \* its arguments
  scan,     \* ids the running iteration has not visited yet
  cur,      \* the entry whose Mutex the thread holds
  acc,      \* the Vec the call is collecting
  ret,      \* what the thread's last call returned
  removed,  \* entries the thread's delete call has taken out of the index
  written,  \* the value last stored under each id of the index
  ops,      \* calls started so far
  poison,   \* which locks a panic has poisoned, and whether a reader panicked
  dfile,    \* DStore: the lines of the file handed to Store::new
  dpos,     \* DStore: lines Store::new has consumed
  dstore,   \* DStore: Store.store, id -> Document { data, status }
  dstate    \* DStore: how far Store::new got

redVars == <<data, inner, writer, readers, log, issued, pc, op, arg, scan, cur,
             acc, ret, removed, written, ops>>
dVars == <<dfile, dpos, dstore, dstate>>
vars == <<redVars, dVars, poison>>

NoArg == [id |-> <<>>, search |-> <<>>, vals |-> <<>>]
NoRet == [op |-> "none", ok |-> TRUE, val |-> <<>>]

\* No thread has panicked.
NoPoison == [outer |-> FALSE, inner |-> {}, reader |-> FALSE]

Keys == DOMAIN data

\* RedDb::new on a file that does not exist yet: empty index, empty log.
InitRedDb ==
  /\ data = <<>>
  /\ inner = [i \in Ids |-> {}]
  /\ writer = {}
  /\ readers = {}
  /\ log = <<>>
  /\ issued = {}
  /\ pc = [t \in Threads |-> "idle"]
  /\ op = [t \in Threads |-> "none"]
  /\ arg = [t \in Threads |-> NoArg]
  /\ scan = [t \in Threads |-> {}]
  /\ cur = [t \in Threads |-> <<>>]
  /\ acc = [t \in Threads |-> <<>>]
  /\ ret = [t \in Threads |-> NoRet]
  /\ removed = [t \in Threads |-> 0]
  /\ written = <<>>
  /\ ops = 0
  /\ poison = NoPoison

\* No DStore has been constructed.
InitNoDStore ==
  /\ dfile = <<>>
  /\ dpos = 0
  /\ dstore = <<>>
  /\ dstate = "none"

Init == InitRedDb /\ InitNoDStore

\* ------------------------------------------------------------- the locks
\* RwLock::write blocks while anybody holds the lock, RwLock::read while a
\* writer holds it.
WriteFree == writer = {} /\ readers = {}
ReadFree == writer = {}

\* self.write() / self.read() return the guard: the lock is free and no
\* writer has panicked while holding it.
CanWrite == WriteFree /\ ~poison.outer
CanRead == ReadFree /\ ~poison.outer

\* Mutex::lock returns the guard: the entry's lock is free and no holder
\* has panicked.
CanLock(id) == inner[id] = {} /\ id \notin poison.inner

\* HashMap::insert / HashMap::remove on the index.
MapInsert(map, id, bytes) ==
  [k \in DOMAIN map \cup {id} |-> IF k = id THEN bytes ELSE map[k]]
MapRemove(map, id) == [k \in DOMAIN map \ {id} |-> map[k]]

\* HashMap::iter / iter_mut: every order in which the entries can come.
Iter(S) ==
  {o \in [1 .. Cardinality(S) -> S] : \A i, j \in DOMAIN o : o[i] = o[j] => i = j}

\* Values the insert calls in progress still have to store.
RECURSIVE PendingOf(_)
PendingOf(ts) ==
  IF ts = {} THEN 0
  ELSE LET t == CHOOSE x \in ts : TRUE
       IN  (IF op[t] \in {"insert_one", "insert"} /\ pc[t] # "persist"
            THEN Len(arg[t].vals) ELSE 0) + PendingOf(ts \ {t})
Pending == PendingOf(Threads)

Begin(t, name, a, k) ==
  /\ pc[t] = "idle"
  /\ Cardinality(issued) + Pending + k <= MaxIds
  /\ ops' = ops + 1
  /\ op' = [op EXCEPT ![t] = name]
  /\ arg' = [arg EXCEPT ![t] = a]
  /\ ret' = [ret EXCEPT ![t] = NoRet]
  /\ removed' = [removed EXCEPT ![t] = 0]
  /\ UNCHANGED written

Return(t, ok, val) ==
  /\ pc' = [pc EXCEPT ![t] = "idle"]
  /\ ret' = [ret EXCEPT ![t] = [op |-> op[t], ok |-> ok, val |-> val]]
  /\ op' = [op EXCEPT ![t] = "none"]
  /\ arg' = [arg EXCEPT ![t] = NoArg]
  /\ scan' = [scan EXCEPT ![t] = {}]
  /\ cur' = [cur EXCEPT ![t] = <<>>]
  /\ acc' = [acc EXCEPT ![t] = <<>>]

\* -------------------------------------------------------------- storage
\* One line of the file: the document's id and its encoded value.
LogLine(doc) == [id |-> doc.id, data |-> Serialize(doc.data)]

RECURSIVE LogLines(_)
LogLines(docs) ==
  IF docs = <<>> THEN <<>> ELSE <<LogLine(Head(docs))>> \o LogLines(Tail(docs))

\* Storage::persist: append one line per document, then sync.
Persist(file, docs) == file \o LogLines(docs)

\* Storage::load_content: replay the file into a fresh index, line by line.
RECURSIVE load_content(_, _)
load_content(file, map) ==
  IF file = <<>> THEN map
  ELSE load_content(Tail(file),
         MapInsert(map, Head(file).id, Serialize(Deserialize(Head(file).data))))

\* ------------------------------------------------------------ insert_data
\* Uuid::new_v4(): a random id, taken to be one never handed out before.
\* The code only compares and hashes ids, so the model names them by the
\* order of issue; the order in which the map iterates stays arbitrary.
new_v4 ==
  IF Ids \ issued = {} THEN {}
  ELSE {CHOOSE i \in Ids \ issued : \A j \in Ids \ issued : i <= j}

\* The entry goes into a map of its own: the earlier entries are lost.
insert_data_alone(map, id, value) == MapInsert(<<>>, id, Serialize(value))

\* data.insert(id, Mutex::new(serialized))
insert_data(map, id, value) == MapInsert(map, id, Serialize(value))

InsertOneCall(t, value) ==
  /\ Begin(t, "insert_one", [NoArg EXCEPT !.vals = <<value>>], 1)
  /\ CanWrite
  /\ writer' = {t}
  /\ pc' = [pc EXCEPT ![t] = "insert_data"]
  /\ UNCHANGED <<data, inner, readers, log, issued, scan, cur, acc>>

InsertCall(t, values) ==
  /\ Begin(t, "insert", [NoArg EXCEPT !.vals = values], Len(values))
  /\ CanWrite
  /\ writer' = {t}
  /\ pc' = [pc EXCEPT ![t] = "insert_data"]
  /\ UNCHANGED <<data, inner, readers, log, issued, scan, cur, acc>>

\* insert_data holding the write lock: new id, encode, insert, unlock.
InsertData(t) ==
  /\ pc[t] = "insert_data"
  /\ \E id \in new_v4 :
       LET value == Head(arg[t].vals) IN
       /\ data' = insert_data(data, id, value)
       /\ issued' = issued \cup {id}
       /\ written' = MapInsert(written, id, value)
       /\ acc' = [acc EXCEPT ![t] = Append(@, create_doc(id, value))]
  /\ arg' = [arg EXCEPT ![t].vals = Tail(@)]
  /\ writer' = {}
  /\ pc' = [pc EXCEPT ![t] =
              IF Tail(arg[t].vals) = <<>> THEN "persist" ELSE "insert_next"]
  /\ UNCHANGED <<inner, readers, log, op, scan, cur, ret, removed, ops>>

\* insert: the next element of the Vec takes the write lock again.
InsertNext(t) ==
  /\ pc[t] = "insert_next"
  /\ CanWrite
  /\ writer' = {t}
  /\ pc' = [pc EXCEPT ![t] = "insert_data"]
  /\ UNCHANGED <<data, inner, readers, log, issued, op, arg, scan, cur, acc,
                 ret, removed, written, ops>>

\* What insert_one and insert hand back: the document, or the documents.
InsertResult(t) == IF op[t] = "insert_one" THEN <<acc[t][1]>> ELSE acc[t]

\* The result of storage.persist is dropped: Ok without a line written.
InsertPersist_dropped(t) ==
  /\ pc[t] = "persist"
  /\ Return(t, TRUE, InsertResult(t))
  /\ UNCHANGED <<data, inner, writer, readers, log, issued, removed, written, ops>>

\* storage.persist(&docs) of insert_one / insert succeeded.
InsertPersist(t) ==
  /\ pc[t] = "persist"
  /\ log' = Persist(log, acc[t])
  /\ Return(t, TRUE, InsertResult(t))
  /\ UNCHANGED <<data, inner, writer, readers, issued, removed, written, ops>>

\* storage.persist failed: the documents stay in the index, the call
\* returns RedDbErrorKind::Datapersist.
InsertPersistFail(t) ==
  /\ pc[t] = "persist"
  /\ Return(t, FALSE, <<"Datapersist">>)
  /\ UNCHANGED <<data, inner, writer, readers, log, issued, removed, written, ops>>

\* --------------------------------------------------------------- find_one
FindOneCall(t, id) ==
  /\ Begin(t, "find_one", [NoArg EXCEPT !.id = <<id>>], 0)
  /\ CanRead
  /\ readers' = readers \cup {t}
  /\ pc' = [pc EXCEPT ![t] = "find_one"]
  /\ UNCHANGED <<data, inner, writer, log, issued, scan, cur, acc>>

\* A lookup that falls back to an empty payload.
get_or_default(map, id) ==
  IF id \in DOMAIN map THEN <<map[id]>> ELSE <<Serialize(<<>>)>>

\* data.get(&id): the entry, if there is one.
get(map, id) == IF id \in DOMAIN map THEN <<map[id]>> ELSE <<>>

\* data.get(&id).ok_or(NotFound { uuid: *id })?
FindOneMissing(t) ==
  /\ pc[t] = "find_one"
  /\ get(data, arg[t].id[1]) = <<>>
  /\ readers' = readers \ {t}
  /\ Return(t, FALSE, <<"NotFound", arg[t].id[1]>>)
  /\ UNCHANGED <<data, inner, writer, log, issued, removed, written, ops>>

\* data.lock()
FindOneLock(t) ==
  /\ pc[t] = "find_one"
  /\ get(data, arg[t].id[1]) # <<>>
  /\ CanLock(arg[t].id[1])
  /\ inner' = [inner EXCEPT ![arg[t].id[1]] = {t}]
  /\ cur' = [cur EXCEPT ![t] = arg[t].id]
  /\ pc' = [pc EXCEPT ![t] = "find_one_locked"]
  /\ UNCHANGED <<data, writer, readers, log, issued, op, arg, scan, acc, ret,
                 removed, written, ops>>

\* The document find_one builds from the locked entry.
find_one(map, id) == create_doc(id, Deserialize(get(map, id)[1]))

FindOneRead(t) ==
  /\ pc[t] = "find_one_locked"
  /\ LET doc == find_one(data, arg[t].id[1]) IN
       IF doc.data = DecodeError
       THEN Return(t, FALSE, DecodeError)
       ELSE Return(t, TRUE, <<doc>>)
  /\ inner' = [inner EXCEPT ![cur[t][1]] = {}]
  /\ readers' = readers \ {t}
  /\ UNCHANGED <<data, writer, log, issued, removed, written, ops>>

\* --------------------------------------------------- find and find_ids
\* Matching on the leading bytes only, not on the whole encoding.
Matches_prefix(bytes, search) ==
  SubSeq(bytes, 1, Len(RonPrefix)) = SubSeq(Serialize(search), 1, Len(RonPrefix))

\* .filter(|(_id, data)| **data == serialized)
Matches(bytes, search) == bytes = Serialize(search)

FindCall(t, search) ==
  /\ Begin(t, "find", [NoArg EXCEPT !.search = search], 0)
  /\ CanRead
  /\ readers' = readers \cup {t}
  /\ scan' = [scan EXCEPT ![t] = Keys]
  /\ pc' = [pc EXCEPT ![t] = "scan"]
  /\ UNCHANGED <<data, inner, writer, log, issued, cur, acc>>

\* The lock is taken out of the PoisonError: a poisoned entry is read.
ScanLock_into_inner(t, id) ==
  /\ pc[t] = "scan"
  /\ id \in scan[t]
  /\ inner[id] = {}
  /\ inner' = [inner EXCEPT ![id] = {t}]
  /\ cur' = [cur EXCEPT ![t] = <<id>>]
  /\ pc' = [pc EXCEPT ![t] = "scan_item"]
  /\ UNCHANGED <<data, writer, readers, log, issued, op, arg, scan, acc, ret,
                 removed, written, ops>>

\* The iterator reaches the next entry, in the map's order, whatever it
\* is, and locks its Mutex.
ScanLock(t, id) ==
  /\ pc[t] = "scan"
  /\ id \in scan[t]
  /\ CanLock(id)
  /\ inner' = [inner EXCEPT ![id] = {t}]
  /\ cur' = [cur EXCEPT ![t] = <<id>>]
  /\ pc' = [pc EXCEPT ![t] = "scan_item"]
  /\ UNCHANGED <<data, writer, readers, log, issued, op, arg, scan, acc, ret,
                 removed, written, ops>>

\* What the entry adds to the Vec: find decodes it into a document,
\* find_ids keeps the id.
Collect(name, found, map, id, search) ==
  IF ~Matches(map[id], search) THEN found
  ELSE IF name = "find"
       THEN Append(found, create_doc(id, Deserialize(map[id])))
       ELSE Append(found, id)

\* filter and map on the locked entry; the guard is dropped.
ScanItem(t) ==
  /\ pc[t] = "scan_item"
  /\ acc' = [acc EXCEPT ![t] =
               Collect(op[t], @, data, cur[t][1], arg[t].search)]
  /\ scan' = [scan EXCEPT ![t] = @ \ {cur[t][1]}]
  /\ inner' = [inner EXCEPT ![cur[t][1]] = {}]
  /\ cur' = [cur EXCEPT ![t] = <<>>]
  /\ pc' = [pc EXCEPT ![t] = "scan"]
  /\ UNCHANGED <<data, writer, readers, log, issued, op, arg, ret, removed,
                 written, ops>>

\* find: collect() is done, the read guard is dropped, Ok(docs).
FindReturn(t) ==
  /\ pc[t] = "scan"
  /\ op[t] = "find"
  /\ scan[t] = {}
  /\ readers' = readers \ {t}
  /\ Return(t, TRUE, acc[t])
  /\ UNCHANGED <<data, inner, writer, log, issued, removed, written, ops>>

\* ------------------------------------------------------------- update_one
\* The guard is taken and never written.
update_one_unwritten(map, id, new_value) == map

\* *guard = self.serialize(&new_value)?
update_one(map, id, new_value) ==
  [map EXCEPT ![id] = Serialize(new_value)]

UpdateOneCall(t, id, new_value) ==
  /\ Begin(t, "update_one", [NoArg EXCEPT !.id = <<id>>, !.vals = <<new_value>>], 0)
  /\ CanWrite
  /\ writer' = {t}
  /\ pc' = [pc EXCEPT ![t] = "update_one"]
  /\ UNCHANGED <<data, inner, readers, log, issued, scan, cur, acc>>

\* An update of an absent id that inserts it instead: Ok(true).
UpdateOneMissing_upsert(t) ==
  /\ pc[t] = "update_one"
  /\ arg[t].id[1] \notin Keys
  /\ data' = MapInsert(data, arg[t].id[1], Serialize(arg[t].vals[1]))
  /\ written' = MapInsert(written, arg[t].id[1], arg[t].vals[1])
  /\ writer' = {}
  /\ Return(t, TRUE, <<TRUE>>)
  /\ UNCHANGED <<inner, readers, log, issued, removed, ops>>

\* contains_key is false: Ok(false).
UpdateOneMissing(t) ==
  /\ pc[t] = "update_one"
  /\ arg[t].id[1] \notin Keys
  /\ writer' = {}
  /\ Return(t, TRUE, <<FALSE>>)
  /\ UNCHANGED <<data, inner, readers, log, issued, removed, written, ops>>

\* The entry is overwritten and persisted under the write lock: Ok(true).
UpdateOneBody(t) ==
  /\ pc[t] = "update_one"
  /\ arg[t].id[1] \in Keys
  /\ CanLock(arg[t].id[1])
  /\ data' = update_one(data, arg[t].id[1], arg[t].vals[1])
  /\ written' = [written EXCEPT ![arg[t].id[1]] = arg[t].vals[1]]
  /\ log' = Persist(log, <<create_doc(arg[t].id[1], arg[t].vals[1])>>)
  /\ writer' = {}
  /\ Return(t, TRUE, <<TRUE>>)
  /\ UNCHANGED <<inner, readers, issued, removed, ops>>

\* The error of storage.persist is swallowed: Ok(true), no line written.
UpdateOnePersistFail_swallowed(t) ==
  /\ pc[t] = "update_one"
  /\ arg[t].id[1] \in Keys
  /\ CanLock(arg[t].id[1])
  /\ data' = update_one(data, arg[t].id[1], arg[t].vals[1])
  /\ written' = [written EXCEPT ![arg[t].id[1]] = arg[t].vals[1]]
  /\ writer' = {}
  /\ Return(t, TRUE, <<TRUE>>)
  /\ UNCHANGED <<inner, readers, log, issued, removed, ops>>

\* The entry is overwritten, storage.persist fails: Err(Datapersist).
UpdateOnePersistFail(t) ==
  /\ pc[t] = "update_one"
  /\ arg[t].id[1] \in Keys
  /\ CanLock(arg[t].id[1])
  /\ data' = update_one(data, arg[t].id[1], arg[t].vals[1])
  /\ written' = [written EXCEPT ![arg[t].id[1]] = arg[t].vals[1]]
  /\ writer' = {}
  /\ Return(t, FALSE, <<"Datapersist">>)
  /\ UNCHANGED <<inner, readers, log, issued, removed, ops>>

\* ----------------------------------------------------------------- update

\* The scan without its filter: every entry is overwritten.
RECURSIVE update_unfiltered(_, _, _, _, _)
update_unfiltered(map, docs, order, search, new_value) ==
  IF order = <<>> THEN [map |-> map, docs |-> docs]
  ELSE update_unfiltered([map EXCEPT ![Head(order)] = Serialize(new_value)],
                         Append(docs, create_doc(Head(order), new_value)),
                         Tail(order), search, new_value)

\* iter_mut().map(lock).filter(== query).map(overwrite, create_doc).collect()
RECURSIVE update(_, _, _, _, _)
update(map, docs, order, search, new_value) ==
  IF order = <<>> THEN [map |-> map, docs |-> docs]
  ELSE LET id == Head(order) IN
       IF Matches(map[id], search)
       THEN update([map EXCEPT ![id] = Serialize(new_value)],
                   Append(docs, create_doc(id, new_value)),
                   Tail(order), search, new_value)
       ELSE update(map, docs, Tail(order), search, new_value)

\* The values the documents of a call have put under their ids.
RECURSIVE Written(_, _)
Written(w, docs) ==
  IF docs = <<>> THEN w
  ELSE Written([w EXCEPT ![Head(docs).id] = Head(docs).data], Tail(docs))

UpdateCall(t, search, new_value) ==
  /\ Begin(t, "update", [NoArg EXCEPT !.search = search, !.vals = <<new_value>>], 0)
  /\ CanWrite
  /\ writer' = {t}
  /\ pc' = [pc EXCEPT ![t] = "update"]
  /\ UNCHANGED <<data, inner, readers, log, issued, scan, cur, acc>>

\* The scan, then storage.persist(&docs) succeeds: Ok(docs.len()).
UpdateBody(t) ==
  /\ pc[t] = "update"
  /\ \A id \in Keys : CanLock(id)
  /\ \E order \in Iter(Keys) :
       LET r == update(data, <<>>, order, arg[t].search, arg[t].vals[1]) IN
       /\ data' = r.map
       /\ written' = Written(written, r.docs)
       /\ log' = Persist(log, r.docs)
       /\ Return(t, TRUE, <<Len(r.docs)>>)
  /\ writer' = {}
  /\ UNCHANGED <<inner, readers, issued, removed, ops>>

\* The scan, then storage.persist fails: Err(Datapersist).
UpdatePersistFail(t) ==
  /\ pc[t] = "update"
  /\ \A id \in Keys : CanLock(id)
  /\ \E order \in Iter(Keys) :
       LET r == update(data, <<>>, order, arg[t].search, arg[t].vals[1]) IN
       /\ data' = r.map
       /\ written' = Written(written, r.docs)
  /\ Return(t, FALSE, <<"Datapersist">>)
  /\ writer' = {}
  /\ UNCHANGED <<inner, readers, log, issued, removed, ops>>

\* ------------------------------------------------------ delete_one, delete
DeleteOneCall(t, id) ==
  /\ Begin(t, "delete_one", [NoArg EXCEPT !.id = <<id>>], 0)
  /\ CanWrite
  /\ writer' = {t}
  /\ pc' = [pc EXCEPT ![t] = "delete_one"]
  /\ UNCHANGED <<data, inner, readers, log, issued, scan, cur, acc>>

\* remove() on a map that lost every entry, not the one asked for.
delete_one_clear(map, id) ==
  IF id \in DOMAIN map
  THEN [map |-> <<>>, found |-> TRUE]
  ELSE [map |-> map, found |-> FALSE]

\* if data.contains_key(id) { data.remove(id); Ok(true) } else { Ok(false) }
delete_one(map, id) ==
  IF id \in DOMAIN map
  THEN [map |-> MapRemove(map, id), found |-> TRUE]
  ELSE [map |-> map, found |-> FALSE]

\* delete_one under the write lock, called directly or by delete.
DeleteOne(t) ==
  /\ pc[t] = "delete_one"
  /\ LET r == delete_one(data, arg[t].id[1]) IN
       /\ data' = r.map
       /\ written' = [k \in DOMAIN r.map |-> written[k]]
       /\ removed' = [removed EXCEPT ![t] = @ + (IF r.found THEN 1 ELSE 0)]
       /\ IF op[t] = "delete_one"
          THEN Return(t, TRUE, <<r.found>>)
          ELSE /\ acc' = [acc EXCEPT ![t] = Append(@, r.found)]
               /\ arg' = [arg EXCEPT ![t].id = Tail(@)]
               /\ pc' = [pc EXCEPT ![t] = "delete_next"]
               /\ UNCHANGED <<op, scan, cur, ret>>
  /\ writer' = {}
  /\ UNCHANGED <<inner, readers, log, issued, ops>>

\* delete starts with find_ids(search), a scan under the read lock.
DeleteCall(t, search) ==
  /\ Begin(t, "delete", [NoArg EXCEPT !.search = search], 0)
  /\ CanRead
  /\ readers' = readers \cup {t}
  /\ scan' = [scan EXCEPT ![t] = Keys]
  /\ pc' = [pc EXCEPT ![t] = "scan"]
  /\ UNCHANGED <<data, inner, writer, log, issued, cur, acc>>

\* find_ids returns its ids while the read guard stays alive.
FindIdsReturn_holding(t) ==
  /\ pc[t] = "scan"
  /\ op[t] = "delete"
  /\ scan[t] = {}
  /\ arg' = [arg EXCEPT ![t].id = acc[t]]
  /\ acc' = [acc EXCEPT ![t] = <<>>]
  /\ pc' = [pc EXCEPT ![t] = "delete_next"]
  /\ UNCHANGED <<data, inner, writer, readers, log, issued, op, scan, cur,
                 ret, removed, written, ops>>

\* find_ids returns: the read guard is dropped, delete holds the ids.
FindIdsReturn(t) ==
  /\ pc[t] = "scan"
  /\ op[t] = "delete"
  /\ scan[t] = {}
  /\ readers' = readers \ {t}
  /\ arg' = [arg EXCEPT ![t].id = acc[t]]
  /\ acc' = [acc EXCEPT ![t] = <<>>]
  /\ pc' = [pc EXCEPT ![t] = "delete_next"]
  /\ UNCHANGED <<data, inner, writer, log, issued, op, scan, cur, ret,
                 removed, written, ops>>

\* The next id of the Vec: delete_one takes the write lock.
DeleteNext(t) ==
  /\ pc[t] = "delete_next"
  /\ arg[t].id # <<>>
  /\ CanWrite
  /\ writer' = {t}
  /\ pc' = [pc EXCEPT ![t] = "delete_one"]
  /\ UNCHANGED <<data, inner, readers, log, issued, op, arg, scan, cur, acc,
                 ret, removed, written, ops>>

\* Ok(docs.len()), docs being the Vec<bool> of the delete_one results.
delete_result(docs) == Len(docs)

DeleteReturn(t) ==
  /\ pc[t] = "delete_next"
  /\ arg[t].id = <<>>
  /\ Return(t, TRUE, <<delete_result(acc[t])>>)
  /\ UNCHANGED <<data, inner, writer, readers, log, issued, removed, written, ops>>

\* ------------------------------------------------------------ the program
Batches == UNION {[1 .. n -> Values] : n \in 1 .. MaxBatch}

Call(t) ==
  \/ \E value \in Values : InsertOneCall(t, value)
  \/ \E values \in Batches : InsertCall(t, values)
  \/ \E id \in Ids : FindOneCall(t, id)
  \/ \E search \in Values : FindCall(t, search)
  \/ \E id \in Ids, new_value \in Values : UpdateOneCall(t, id, new_value)
  \/ \E search \in Values, new_value \in Values : UpdateCall(t, search, new_value)
  \/ \E id \in Ids : DeleteOneCall(t, id)
  \/ \E search \in Values : DeleteCall(t, search)

Step(t) ==
  \/ InsertData(t)
  \/ InsertNext(t)
  \/ InsertPersist(t)
  \/ FindOneMissing(t)
  \/ FindOneLock(t)
  \/ FindOneRead(t)
  \/ \E id \in Ids : ScanLock(t, id)
  \/ ScanItem(t)
  \/ FindReturn(t)
  \/ UpdateOneMissing(t)
  \/ UpdateOneBody(t)
  \/ UpdateBody(t)
  \/ DeleteOne(t)
  \/ FindIdsReturn(t)
  \/ DeleteNext(t)
  \/ DeleteReturn(t)

\* The append or the sync to the file fails.
IoFail(t) ==
  \/ InsertPersistFail(t)
  \/ UpdateOnePersistFail(t)
  \/ UpdatePersistFail(t)

\* Two threads race through arbitrary calls.
Next ==
  /\ \/ ops < MaxOps /\ \E t \in Racers : Call(t)
     \/ \E t \in Racers : Step(t)
     \/ \E t \in Racers : IoFail(t)
  /\ UNCHANGED <<dVars, poison>>

Spec == Init /\ [][Next]_vars

\* A single caller makes one call after the other.
NextSeq ==
  /\ \/ ops < MaxSeqOps /\ Call(Caller)
     \/ Step(Caller)
     \/ IoFail(Caller)
  /\ UNCHANGED <<dVars, poison>>

SpecSeq == Init /\ [][NextSeq]_vars

\* A single caller inserts and updates; the file never fails.
NextDurable ==
  /\ \/ /\ ops < MaxSeqOps
        /\ \/ \E value \in Values : InsertOneCall(Caller, value)
           \/ \E values \in Batches : InsertCall(Caller, values)
           \/ \E id \in Ids, new_value \in Values :
                UpdateOneCall(Caller, id, new_value)
           \/ \E search \in Values, new_value \in Values :
                UpdateCall(Caller, search, new_value)
     \/ InsertData(Caller)
     \/ InsertNext(Caller)
     \/ InsertPersist(Caller)
     \/ UpdateOneMissing(Caller)
     \/ UpdateOneBody(Caller)
     \/ UpdateBody(Caller)
  /\ UNCHANGED <<dVars, poison>>

SpecDurable == Init /\ [][NextDurable]_vars

\* Two threads race through inserts and updates; the file never fails and
\* nothing is deleted.
NextWriters ==
  /\ \/ /\ ops < MaxOps
        /\ \E t \in Racers :
             \/ \E value \in Values : InsertOneCall(t, value)
             \/ \E values \in Batches : InsertCall(t, values)
             \/ \E id \in Ids, new_value \in Values :
                  UpdateOneCall(t, id, new_value)
             \/ \E search \in Values, new_value \in Values :
                  UpdateCall(t, search, new_value)
     \/ \E t \in Racers : InsertData(t)
     \/ \E t \in Racers : InsertNext(t)
     \/ \E t \in Racers : InsertPersist(t)
     \/ \E t \in Racers : UpdateOneMissing(t)
     \/ \E t \in Racers : UpdateOneBody(t)
     \/ \E t \in Racers : UpdateBody(t)
  /\ UNCHANGED <<dVars, poison>>

SpecWriters == Init /\ [][NextWriters]_vars

\* Each inserter calls insert_one once; a reader runs find and find_one
\* meanwhile.
NextInsertN ==
  /\ \/ \E t \in Inserters, value \in Values :
          ret[t].op = "none" /\ InsertOneCall(t, value)
     \/ \E t \in Inserters : InsertData(t) \/ InsertPersist(t)
     \/ /\ ops < MaxOps
        /\ \/ \E id \in Ids : FindOneCall(Reader, id)
           \/ \E search \in Values : FindCall(Reader, search)
     \/ FindOneMissing(Reader)
     \/ FindOneLock(Reader)
     \/ FindOneRead(Reader)
     \/ \E id \in Ids : ScanLock(Reader, id)
     \/ ScanItem(Reader)
     \/ FindReturn(Reader)
  /\ UNCHANGED <<dVars, poison>>

SpecInsertN == Init /\ [][NextInsertN]_vars

\* ------------------------------------------------------ panics and poison
\* The thread unwinds out of its call and makes no further call.
Panic(t) ==
  /\ pc' = [pc EXCEPT ![t] = "panicked"]
  /\ ret' = [ret EXCEPT ![t] = [op |-> op[t], ok |-> FALSE, val |-> <<"panic">>]]
  /\ op' = [op EXCEPT ![t] = "none"]
  /\ arg' = [arg EXCEPT ![t] = NoArg]
  /\ scan' = [scan EXCEPT ![t] = {}]
  /\ cur' = [cur EXCEPT ![t] = <<>>]
  /\ acc' = [acc EXCEPT ![t] = <<>>]

\* The calls that unwrap the result of taking the outer lock:
\* insert_data(..).unwrap() and self.data.write().unwrap().
Unwraps == {"insert_one", "insert", "delete_one"}
CallNames ==
  {"insert_one", "insert", "find_one", "find", "update_one", "update",
   "delete_one", "delete"}

\* A call that finds the RwLock poisoned: self.read()? and self.write()?
\* return RedDbErrorKind::Poisoned, the unwraps panic.
PoisonedCall(t, name) ==
  /\ pc[t] = "idle"
  /\ poison.outer
  /\ IF name \in {"find_one", "find", "delete"} THEN ReadFree ELSE WriteFree
  /\ ops' = ops + 1
  /\ removed' = [removed EXCEPT ![t] = 0]
  /\ ret' = [ret EXCEPT ![t] =
               [op |-> name, ok |-> FALSE,
                val |-> IF name \in Unwraps THEN <<"panic">> ELSE <<"Poisoned">>]]
  /\ pc' = [pc EXCEPT ![t] = IF name \in Unwraps THEN "panicked" ELSE "idle"]
  /\ UNCHANGED <<data, inner, writer, readers, log, issued, op, arg, scan,
                 cur, acc, written, poison>>

\* insert: the next insert_data(..).unwrap() finds the RwLock poisoned.
InsertNextPoisoned(t) ==
  /\ pc[t] = "insert_next"
  /\ poison.outer
  /\ WriteFree
  /\ Panic(t)
  /\ UNCHANGED <<data, inner, writer, readers, log, issued, removed, written,
                 ops, poison>>

\* delete: the next delete_one finds the RwLock poisoned and unwraps.
DeleteNextPoisoned(t) ==
  /\ pc[t] = "delete_next"
  /\ arg[t].id # <<>>
  /\ poison.outer
  /\ WriteFree
  /\ Panic(t)
  /\ UNCHANGED <<data, inner, writer, readers, log, issued, removed, written,
                 ops, poison>>

\* find_one: data.lock() fails, Err(PoisonedValue).
FindOnePoisoned(t) ==
  /\ pc[t] = "find_one"
  /\ arg[t].id[1] \in Keys
  /\ inner[arg[t].id[1]] = {}
  /\ arg[t].id[1] \in poison.inner
  /\ readers' = readers \ {t}
  /\ Return(t, FALSE, <<"PoisonedValue">>)
  /\ UNCHANGED <<data, inner, writer, log, issued, removed, written, ops, poison>>

\* find / find_ids: lock().map_err(..).unwrap() panics on a poisoned entry
\* while the read guard is held; a read guard poisons nothing.
ScanPoisoned(t, id) ==
  /\ pc[t] = "scan"
  /\ id \in scan[t]
  /\ inner[id] = {}
  /\ id \in poison.inner
  /\ readers' = readers \ {t}
  /\ poison' = [poison EXCEPT !.reader = TRUE]
  /\ Panic(t)
  /\ UNCHANGED <<data, inner, writer, log, issued, removed, written, ops>>

\* update_one: data.lock() fails, Err(PoisonedValue); the write guard is
\* dropped on the way out of the call, not in a panic.
UpdateOnePoisoned(t) ==
  /\ pc[t] = "update_one"
  /\ arg[t].id[1] \in Keys
  /\ arg[t].id[1] \in poison.inner
  /\ writer' = {}
  /\ Return(t, FALSE, <<"PoisonedValue">>)
  /\ UNCHANGED <<data, inner, readers, log, issued, removed, written, ops, poison>>

\* The entries an iteration yields before it reaches id.
Before(order, id) ==
  SubSeq(order, 1, (CHOOSE i \in DOMAIN order : order[i] = id) - 1)

\* The first entry of an iteration that is in S.
FirstIn(order, S) ==
  order[CHOOSE i \in DOMAIN order :
          /\ order[i] \in S
          /\ \A j \in DOMAIN order : order[j] \in S => i <= j]

\* update: value.lock().map_err(..).unwrap() panics on a poisoned entry
\* under the write guard: the entries before it are overwritten, nothing is
\* persisted, the RwLock is poisoned.
UpdatePoisoned(t) ==
  /\ pc[t] = "update"
  /\ Keys \cap poison.inner # {}
  /\ \E order \in Iter(Keys) :
       LET stop == FirstIn(order, poison.inner)
           r == update(data, <<>>, Before(order, stop), arg[t].search,
                       arg[t].vals[1])
       IN  /\ data' = r.map
           /\ written' = Written(written, r.docs)
  /\ writer' = {}
  /\ poison' = [poison EXCEPT !.outer = TRUE]
  /\ Panic(t)
  /\ UNCHANGED <<inner, readers, log, issued, removed, ops>>

\* The Serialize impl of T panics in insert_data, under the write guard.
FaultInsert(t) ==
  /\ pc[t] = "insert_data"
  /\ writer' = {}
  /\ poison' = [poison EXCEPT !.outer = TRUE]
  /\ Panic(t)
  /\ UNCHANGED <<data, inner, readers, log, issued, removed, written, ops>>

\* The Serialize impl of T panics in update_one, under the write guard and
\* the guard of the entry.
FaultUpdateOne(t) ==
  /\ pc[t] = "update_one"
  /\ arg[t].id[1] \in Keys
  /\ CanLock(arg[t].id[1])
  /\ writer' = {}
  /\ poison' = [poison EXCEPT !.outer = TRUE, !.inner = @ \cup {arg[t].id[1]}]
  /\ Panic(t)
  /\ UNCHANGED <<data, inner, readers, log, issued, removed, written, ops>>

\* The Serialize impl of T panics in update: on the search value, under the
\* write guard, or on new_value at a matching entry, under its guard too,
\* after the matching entries before it were overwritten.
FaultUpdate(t) ==
  /\ pc[t] = "update"
  /\ \A id \in Keys : CanLock(id)
  /\ \/ /\ poison' = [poison EXCEPT !.outer = TRUE]
        /\ UNCHANGED <<data, written>>
     \/ \E order \in Iter(Keys),
           stop \in {id \in Keys : Matches(data[id], arg[t].search)} :
          LET r == update(data, <<>>, Before(order, stop), arg[t].search,
                          arg[t].vals[1])
          IN  /\ data' = r.map
              /\ written' = Written(written, r.docs)
              /\ poison' = [poison EXCEPT !.outer = TRUE, !.inner = @ \cup {stop}]
  /\ writer' = {}
  /\ Panic(t)
  /\ UNCHANGED <<inner, readers, log, issued, removed, ops>>

\* The Serialize impl of T panics on the search value of find / find_ids,
\* under the read guard, before any entry is locked.
FaultScan(t) ==
  /\ pc[t] = "scan"
  /\ scan[t] = Keys
  /\ readers' = readers \ {t}
  /\ poison' = [poison EXCEPT !.reader = TRUE]
  /\ Panic(t)
  /\ UNCHANGED <<data, inner, writer, log, issued, removed, written, ops>>

\* The Deserialize impl of T panics in find_one or find, under the read
\* guard and the guard of the entry: the entry's Mutex is poisoned.
FaultDecode(t) ==
  /\ \/ pc[t] = "find_one_locked"
     \/ /\ pc[t] = "scan_item"
        /\ op[t] = "find"
        /\ Matches(data[cur[t][1]], arg[t].search)
  /\ inner' = [inner EXCEPT ![cur[t][1]] = {}]
  /\ readers' = readers \ {t}
  /\ poison' = [poison EXCEPT !.inner = @ \cup {cur[t][1]}, !.reader = TRUE]
  /\ Panic(t)
  /\ UNCHANGED <<data, writer, log, issued, removed, written, ops>>

\* What a poisoned lock does to the thread that tries to take it.
Poisoned(t) ==
  \/ InsertNextPoisoned(t)
  \/ DeleteNextPoisoned(t)
  \/ FindOnePoisoned(t)
  \/ \E id \in Ids : ScanPoisoned(t, id)
  \/ UpdateOnePoisoned(t)
  \/ UpdatePoisoned(t)

Fault(t) ==
  \/ FaultInsert(t)
  \/ FaultUpdateOne(t)
  \/ FaultUpdate(t)
  \/ FaultScan(t)
  \/ FaultDecode(t)

\* ---------------------------------------------------- one call per thread
\* RedDb::new on a file that holds one line for each of its ids: the index
\* is what the lines say.
LoadedValues == UNION {[1 .. n -> Values] : n \in 0 .. MaxLoaded}

RECURSIVE LoadedDocs(_, _)
LoadedDocs(values, n) ==
  IF n = 0 THEN <<>>
  ELSE Append(LoadedDocs(values, n - 1), create_doc(n, values[n]))

InitLoaded ==
  /\ \E values \in LoadedValues :
       /\ log = LogLines(LoadedDocs(values, Len(values)))
       /\ data = [id \in DOMAIN values |-> Serialize(values[id])]
       /\ issued = DOMAIN values
       /\ written = values
  /\ inner = [i \in Ids |-> {}]
  /\ writer = {}
  /\ readers = {}
  /\ pc = [t \in Threads |-> "idle"]
  /\ op = [t \in Threads |-> "none"]
  /\ arg = [t \in Threads |-> NoArg]
  /\ scan = [t \in Threads |-> {}]
  /\ cur = [t \in Threads |-> <<>>]
  /\ acc = [t \in Threads |-> <<>>]
  /\ ret = [t \in Threads |-> NoRet]
  /\ removed = [t \in Threads |-> 0]
  /\ ops = 0
  /\ poison = NoPoison
  /\ InitNoDStore

\* The thread has not made its call yet.
Fresh(t) == ret[t].op = "none"

\* Each of two threads makes one call, whichever, against the other's.
NextRace ==
  /\ \/ \E t \in Racers : Fresh(t) /\ Call(t)
     \/ \E t \in Racers : Step(t)
     \/ \E t \in Racers : IoFail(t)
  /\ UNCHANGED <<dVars, poison>>

SpecRace == InitLoaded /\ [][NextRace]_vars

\* The same, and the code of T may panic inside the critical sections.
NextRaceFault ==
  \/ /\ \/ \E t \in Racers : Fresh(t) /\ Call(t)
        \/ \E t \in Racers : Step(t)
        \/ \E t \in Racers : IoFail(t)
     /\ UNCHANGED <<dVars, poison>>
  \/ /\ \/ \E t \in Racers, name \in CallNames :
             Fresh(t) /\ PoisonedCall(t, name)
        \/ \E t \in Racers : Poisoned(t)
        \/ \E t \in Racers : Fault(t)
     /\ UNCHANGED dVars

SpecRaceFault == InitLoaded /\ [][NextRaceFault]_vars

\* ------------------------------------------------- DStore: Store::new
\* A line of the file: a JSON object with "_id" and "data", or a line that
\* is no JSON, or one whose "_id" is no string, or no Uuid.
Malformed == {"garbage", "no_id", "bad_id"}
Lines ==
  [kind : {"doc"}, id : Ids, data : Values]
    \cup [kind : Malformed, id : {Caller}, data : {One}]
Files == UNION {[1 .. n -> Lines] : n \in 0 .. MaxLines}

\* Document { data: json_doc["data"] with "_id" set, status: Status::Saved }
StoreDocument(line) ==
  [data |-> [foo |-> line.data, _id |-> line.id], status |-> "Saved"]

\* Only the first line of an id is kept.
map_store_keep_first(map, id, doc) ==
  IF id \in DOMAIN map THEN map ELSE MapInsert(map, id, doc)

\* map_store.insert(_id, Mutex::new(doc))
map_store_insert(map, id, doc) == MapInsert(map, id, doc)

\* The loop body that steps over a line it cannot use.
StoreNewLine_skipping ==
  /\ dstate = "loading"
  /\ dpos < Len(dfile)
  /\ LET line == dfile[dpos + 1] IN
       /\ dstore' = IF line.kind = "doc"
                    THEN map_store_insert(dstore, line.id, StoreDocument(line))
                    ELSE dstore
       /\ dpos' = dpos + 1
  /\ UNCHANGED <<dfile, dstate>>

\* The loop body of Store::new on the next line of the file.
StoreNewLine ==
  /\ dstate = "loading"
  /\ dpos < Len(dfile)
  /\ LET line == dfile[dpos + 1] IN
       CASE line.kind = "doc" ->
              /\ dstore' = map_store_insert(dstore, line.id, StoreDocument(line))
              /\ dpos' = dpos + 1
              /\ UNCHANGED dstate
         [] line.kind = "no_id" ->
              /\ dstate' = "panic"
              /\ UNCHANGED <<dstore, dpos>>
         [] OTHER ->
              /\ dstate' = "err"
              /\ UNCHANGED <<dstore, dpos>>
  /\ UNCHANGED dfile

\* Ok(Self { store: RwLock::new(map_store) })
StoreNewOk ==
  /\ dstate = "loading"
  /\ dpos = Len(dfile)
  /\ dstate' = "ok"
  /\ UNCHANGED <<dfile, dpos, dstore>>

InitReplay ==
  /\ InitRedDb
  /\ dfile \in Files
  /\ dpos = 0
  /\ dstore = <<>>
  /\ dstate = "loading"

NextReplay == (StoreNewLine \/ StoreNewOk) /\ UNCHANGED <<redVars, poison>>

SpecReplay == InitReplay /\ [][NextReplay]_vars

\* ------------------------------------------- DStore: insert and persist
\* The file may grow by one line per id beyond what Store::new has read.
MaxFile == MaxLines + MaxIds

\* DStore::new has returned Ok(Self): the methods of DStore can be called.
Constructed == dstate \in {"ok", "persisted"}

\* Store::insert: a new document under a fresh id, not yet written.
DInsert(value) ==
  /\ Constructed
  /\ \E id \in Ids \ DOMAIN dstore :
       /\ \A other \in Ids \ DOMAIN dstore : id <= other
       /\ dstore' = MapInsert(dstore, id,
                      [data |-> [foo |-> value, _id |-> id],
                       status |-> "NotSaved"])
  /\ dstate' = "ok"
  /\ UNCHANGED <<dfile, dpos>>

\* .filter(|(_k, v)| v.status == Status::NotSaved)
NotSaved(map) == {id \in DOMAIN map : map[id].status = "NotSaved"}

\* Store::format_jsondocs: one line per document that is NotSaved, in the
\* order of the given iteration; the store is only read.
RECURSIVE format_jsondocs(_, _)
format_jsondocs(map, order) ==
  IF order = <<>> THEN <<>>
  ELSE <<[kind |-> "doc", id |-> Head(order),
          data |-> map[Head(order)].data.foo]>>
         \o format_jsondocs(map, Tail(order))

\* DStore::persist: format_jsondocs, seek to the end, write_all, sync_all,
\* Ok(()). The store is left as it is.
DPersist ==
  /\ Constructed
  /\ Len(dfile) + Cardinality(NotSaved(dstore)) <= MaxFile
  /\ \E order \in Iter(NotSaved(dstore)) :
       dfile' = dfile \o format_jsondocs(dstore, order)
  /\ dstate' = "persisted"
  /\ UNCHANGED <<dpos, dstore>>

NextDStore ==
  /\ \/ StoreNewLine
     \/ StoreNewOk
     \/ \E value \in Values : DInsert(value)
     \/ DPersist
  /\ UNCHANGED <<redVars, poison>>

SpecDStore == InitReplay /\ [][NextDStore]_vars

\* ------------------------------------------------------------ properties
\* Thread t returns from the call `name` in this step.
Returns(t, name) == op[t] = name /\ pc'[t] = "idle"

\* The ids of the index whose payload is the encoding of value.
Matching(map, value) == {id \in DOMAIN map : map[id] = Serialize(value)}

DocIds(docs) == {docs[i].id : i \in DOMAIN docs}

\* C1: find(pattern) returns one document for each id whose stored payload
\* equals encode(pattern), carrying the pattern as its value, and no document
\* for any other id.
C1_FindExact ==
  [][\A t \in Threads :
       Returns(t, "find") =>
         LET docs == ret'[t].val
             m == Matching(data, arg[t].search)
         IN  /\ ret'[t].ok
             /\ Len(docs) = Cardinality(m)
             /\ DocIds(docs) = m
             /\ \A i \in DOMAIN docs : docs[i].data = arg[t].search]_vars

\* one, one, two are in the index and find returned 2 documents.
C1_Witness ==
  /\ ret[Caller].op = "find"
  /\ Len(ret[Caller].val) = 2
  /\ Cardinality(Keys) = 3
  /\ Cardinality(Matching(data, One)) = 2
  /\ Cardinality(Matching(data, Two)) = 1

\* The effect of a successful update(search, new_value) on the index: it
\* returns the number k of entries that matched search, exactly those hold
\* encode(new_value) afterwards, nothing else changed, no id came or went.
UpdateEffect(t) ==
  LET m == Matching(data, arg[t].search)
      new == arg[t].vals[1]
  IN  /\ ret'[t].val = <<Cardinality(m)>>
      /\ DOMAIN data' = DOMAIN data
      /\ \A id \in DOMAIN data :
           data'[id] = IF id \in m THEN Serialize(new) ELSE data[id]

C3_DeleteCount ==
  \A t \in Threads :
    ret[t].op = "delete" /\ ret[t].ok => ret[t].val = <<removed[t]>>

\* C4: for an id in the index, find_one(id) returns a document with that id
\* and the value last written under it by insert_one, insert, update_one or
\* update.
C4_ReadYourWrites ==
  [][\A t \in Threads :
       Returns(t, "find_one") /\ arg[t].id[1] \in DOMAIN data =>
         /\ ret'[t].ok
         /\ ret'[t].val =
              <<[id |-> arg[t].id[1], data |-> written[arg[t].id[1]]]>>]_vars

\* find_one returned the value of an update that followed the insert: the
\* log holds both lines of the id.
C4_Witness ==
  /\ ret[Caller].op = "find_one"
  /\ ret[Caller].ok
  /\ \E i, j \in DOMAIN log :
       /\ i < j
       /\ log[i].id = ret[Caller].val[1].id
       /\ log[j].id = ret[Caller].val[1].id
       /\ log[i].data # log[j].data
       /\ log[j].data = Serialize(ret[Caller].val[1].data)

\* C5: find_one(id) on an id that is not in the index returns NotFound with
\* that id, and leaves the index and the log as they were.
C5_NotFound ==
  [][\A t \in Threads :
       Returns(t, "find_one") /\ arg[t].id[1] \notin DOMAIN data =>
         /\ ~ret'[t].ok
         /\ ret'[t].val = <<"NotFound", arg[t].id[1]>>
         /\ data' = data
         /\ log' = log]_vars

\* find_one answered NotFound for an id that had been inserted and deleted.
C5_Witness ==
  /\ ret[Caller].op = "find_one"
  /\ ~ret[Caller].ok
  /\ ret[Caller].val[1] = "NotFound"
  /\ ret[Caller].val[2] \in issued

\* C6: delete_one(id) returns true exactly when id is in the index, and then
\* removes that entry and no other; otherwise it returns false and the index
\* stays as it was.
C6_DeleteOne ==
  [][\A t \in Threads :
       Returns(t, "delete_one") =>
         LET id == arg[t].id[1] IN
         /\ ret'[t].ok
         /\ ret'[t].val = <<id \in DOMAIN data>>
         /\ DOMAIN data' = DOMAIN data \ {id}
         /\ \A k \in DOMAIN data' : data'[k] = data[k]]_vars

\* A delete_one of an id that an earlier delete_one removed returned false,
\* with another document still in the index.
C6_Witness ==
  /\ ret[Caller].op = "delete_one"
  /\ ret[Caller].val = <<FALSE>>
  /\ Keys # {}
  /\ Keys # issued

\* C8: once every inserter has returned from its one insert_one, the index
\* holds exactly one entry per call, under pairwise distinct ids, each with
\* the payload of its call; what a concurrent find or find_one returns is,
\* document by document, the whole payload some call stored.
C8_ConcurrentInserts ==
  /\ (\A t \in Inserters : ret[t].op = "insert_one") =>
       /\ Cardinality(Keys) = NInserters
       /\ \A t \in Inserters :
            /\ ret[t].val[1].id \in Keys
            /\ data[ret[t].val[1].id] = Serialize(ret[t].val[1].data)
       /\ \A t, u \in Inserters :
            t # u => ret[t].val[1].id # ret[u].val[1].id
  /\ ret[Reader].op \in {"find", "find_one"} =>
       /\ ~ret[Reader].ok => ret[Reader].val[1] = "NotFound"
       /\ ret[Reader].ok =>
            \A i \in DOMAIN ret[Reader].val :
              LET doc == ret[Reader].val[i] IN
              /\ doc.id \in Keys
              /\ doc.data \in Values
              /\ doc.data = written[doc.id]

\* Every inserter has returned, and the reader's find saw one document of
\* the several that match its pattern by now: it ran between the inserts.
C8_Witness ==
  /\ \A t \in Inserters : ret[t].op = "insert_one"
  /\ Cardinality(Keys) = NInserters
  /\ ret[Reader].op = "find"
  /\ Len(ret[Reader].val) = 1
  /\ Cardinality(Matching(data, ret[Reader].val[1].data)) = NInserters

\* The lines of the file that carry id, in file order.
RECURSIVE LinesOf(_, _)
LinesOf(file, id) ==
  IF file = <<>> THEN <<>>
  ELSE (IF Head(file).id = id THEN <<Head(file)>> ELSE <<>>)
         \o LinesOf(Tail(file), id)

LastLine(file, id) == LinesOf(file, id)[Len(LinesOf(file, id))]

\* C9: with a single caller and no failing write, whenever the caller is
\* between calls the replay of the log has the ids of the index and, for
\* each id, the payload of the id's last line, which is the payload the
\* index holds.
C9_Replay ==
  pc[Caller] = "idle" =>
    LET replayed == load_content(log, <<>>) IN
    /\ DOMAIN replayed = Keys
    /\ \A id \in Keys :
         /\ replayed[id] = LastLine(log, id).data
         /\ replayed[id] = data[id]

\* Two documents are in the index and in the log, one of them with a first
\* line that a later update overrode.
C9_Witness ==
  /\ pc[Caller] = "idle"
  /\ Cardinality(Keys) >= 2
  /\ \E id \in Keys :
       /\ Len(LinesOf(log, id)) >= 2
       /\ LinesOf(log, id)[1].data # data[id]
       /\ LastLine(log, id).data = data[id]

\* C10: when Store::new succeeds, each id of the file has one entry in the
\* store, with the payload of the id's last line, and every document is
\* Saved.
C10_LastWriteWins ==
  dstate = "ok" =>
    /\ DOMAIN dstore = {dfile[i].id : i \in DOMAIN dfile}
    /\ \A id \in DOMAIN dstore :
         /\ dstore[id].data.foo = LastLine(dfile, id).data
         /\ dstore[id].data._id = id
         /\ dstore[id].status = "Saved"

\* Store::new succeeded on a file with two lines of one id that differ.
C10_Witness ==
  /\ dstate = "ok"
  /\ \E i, j \in DOMAIN dfile :
       i < j /\ dfile[i].id = dfile[j].id /\ dfile[i].data # dfile[j].data

\* C11: once delete_one or delete has returned successfully, replaying the
\* log yields an index that holds none of the ids that were removed.
C11_DeleteDurable ==
  \A t \in Threads :
    (pc[t] = "idle" /\ ret[t].op \in {"delete_one", "delete"} /\ ret[t].ok) =>
      \A id \in issued \ Keys : id \notin DOMAIN load_content(log, <<>>)

\* The lines a call has appended to the log in its last step.
Appended == SubSeq(log', Len(log) + 1, Len(log'))

\* C12: a call of insert_one, insert, update_one or update that returns
\* success has appended the records of its documents to the log; one that
\* returns Datapersist has appended nothing, and what it applied to the
\* index is still there.
C12_PersistFailure ==
  [][\A t \in Threads :
       /\ (Returns(t, "insert_one") \/ Returns(t, "insert")) =>
            /\ ret'[t].ok => log' = log \o LogLines(acc[t])
            /\ ~ret'[t].ok =>
                 /\ ret'[t].val = <<"Datapersist">>
                 /\ log' = log
                 /\ \A i \in DOMAIN acc[t] :
                      /\ acc[t][i].id \in DOMAIN data'
                      /\ data'[acc[t][i].id] = Serialize(acc[t][i].data)
       /\ Returns(t, "update_one") =>
            /\ (ret'[t].ok /\ ret'[t].val = <<TRUE>>) =>
                 log' = Append(log, LogLine(create_doc(arg[t].id[1],
                                                       arg[t].vals[1])))
            /\ (ret'[t].ok /\ ret'[t].val = <<FALSE>>) => log' = log
            /\ ~ret'[t].ok =>
                 /\ ret'[t].val = <<"Datapersist">>
                 /\ log' = log
                 /\ data'[arg[t].id[1]] = Serialize(arg[t].vals[1])
       /\ Returns(t, "update") =>
            /\ ret'[t].ok =>
                 /\ Len(Appended) = ret'[t].val[1]
                 /\ {Appended[i].id : i \in DOMAIN Appended}
                      = Matching(data, arg[t].search)
                 /\ \A i \in DOMAIN Appended :
                      Appended[i].data = Serialize(arg[t].vals[1])
            /\ ~ret'[t].ok =>
                 /\ ret'[t].val = <<"Datapersist">>
                 /\ log' = log
                 /\ \A id \in Matching(data, arg[t].search) :
                      data'[id] = Serialize(arg[t].vals[1])]_vars

\* update_one has returned Datapersist: the index holds a document with a
\* payload that no line of the log carries.
C12_Witness ==
  /\ pc[Caller] = "idle"
  /\ ret[Caller].op = "update_one"
  /\ ~ret[Caller].ok
  /\ ret[Caller].val = <<"Datapersist">>
  /\ \E id \in Keys :
       /\ LinesOf(log, id) # <<>>
       /\ \A i \in DOMAIN log : log[i].id = id => log[i].data # data[id]

\* C13 as stated: update_one or delete_one of an id that is not in the
\* index returns NotFound(id) and leaves the index and the log alone.
C13_NotFoundAsStated ==
  [][\A t \in Threads :
       ((Returns(t, "update_one") \/ Returns(t, "delete_one"))
          /\ arg[t].id[1] \notin Keys) =>
         /\ ~ret'[t].ok
         /\ ret'[t].val = <<"NotFound", arg[t].id[1]>>
         /\ data' = data
         /\ log' = log]_vars

\* C13: update_one or delete_one of an id that is not in the index returns
\* Ok(false), which is no error, and leaves the index and the log alone.
C13_MissingTarget ==
  [][\A t \in Threads :
       ((Returns(t, "update_one") \/ Returns(t, "delete_one"))
          /\ arg[t].id[1] \notin Keys) =>
         /\ ret'[t].ok
         /\ ret'[t].val = <<FALSE>>
         /\ data' = data
         /\ log' = log]_vars

\* update_one has returned false for an id that delete_one had removed
\* from an index that still holds another document.
C13_Witness ==
  /\ pc[Caller] = "idle"
  /\ ret[Caller].op = "update_one"
  /\ ret[Caller].ok
  /\ ret[Caller].val = <<FALSE>>
  /\ Keys # {}
  /\ issued \ Keys # {}

\* C14: the outer lock is held in write mode only by insert and delete: a
\* thread that is inside update_one or update holds it in read mode.
C14_UpdateHoldsReadLock ==
  \A t \in Threads :
    (op[t] \in {"update_one", "update"} /\ pc[t] # "idle") =>
      /\ t \notin writer
      /\ t \in readers

\* C19: each entry that delete(pattern) removes has, at the moment it is
\* removed, a payload equal to the encoding of the pattern.
C19_DeleteAtomic ==
  [][\A t \in Threads :
       (/\ op[t] = "delete"
        /\ pc[t] = "delete_one"
        /\ arg[t].id[1] \in Keys
        /\ arg[t].id[1] \notin DOMAIN data') =>
         Matches(data[arg[t].id[1]], arg[t].search)]_vars

\* C20: with inserts and updates only and a file that never fails, once
\* every call has returned the replay of the log yields, for every id, the
\* payload the index holds for it.
C20_LogOrder ==
  (\A t \in Racers : pc[t] = "idle") =>
    LET replayed == load_content(log, <<>>) IN
    /\ DOMAIN replayed = Keys
    /\ \A id \in Keys : replayed[id] = data[id]

C17_PersistMarksSaved ==
  [][(dstate' = "persisted") =>
       /\ NotSaved(dstore') = {}
       /\ dstate = "persisted" => dfile' = dfile]_vars

\* Some thread takes the next step of the call it is in.
Progress == \E t \in Racers : Step(t) \/ IoFail(t)

\* The documents whose inner lock thread t holds.
HeldInner(t) == {id \in DOMAIN inner : t \in inner[id]}

\* C18: no deadlock: while a call is under way some thread can take a
\* step. An inner lock is only held under the outer lock and one at a time,
\* a thread that is about to take the outer lock does not hold it, and a
\* writer excludes every other holder.
C18_NoDeadlock ==
  /\ (\E t \in Racers : pc[t] # "idle") => ENABLED Progress
  /\ \A t \in Threads :
       /\ Cardinality(HeldInner(t)) <= 1
       /\ HeldInner(t) # {} => t \in readers \cup writer
       /\ pc[t] \in {"idle", "insert_next", "persist", "delete_next"} =>
            t \notin readers \cup writer
  /\ writer # {} => (readers = {} /\ Cardinality(writer) = 1)

\* One thread is inside delete and waits for the write lock while the
\* other scans under the read lock with a document locked.
C18_Witness ==
  \E t, u \in Racers :
    /\ pc[t] = "delete_next"
    /\ arg[t].id # <<>>
    /\ pc[u] = "scan_item"
    /\ u \in readers
    /\ HeldInner(u) # {}

\* The fatal outcomes: the two poison errors and a panic.
Fatal == {<<"Poisoned">>, <<"PoisonedValue">>, <<"panic">>}

\* The call of thread t is over after this step, with a fatal outcome.
EndsFatal(t) ==
  /\ pc'[t] \in {"idle", "panicked"}
  /\ ~ret'[t].ok
  /\ ret'[t].val \in Fatal

\* A call starts in this step and ends in it with a fatal outcome, with no
\* effect on the index or the log.
CallEndsFatal ==
  /\ data' = data
  /\ log' = log
  /\ \E t \in Racers :
       /\ pc[t] = "idle"
       /\ EndsFatal(t)
       /\ \A u \in Racers \ {t} : pc'[u] = pc[u] /\ ret'[u] = ret[u]

\* What holds of the operations that come to a poisoned inner lock: no
\* thread ever holds it; find_one and update_one end with a fatal outcome
\* and touch nothing; update and the scans panic, and update leaves the
\* poisoned entry and the log as they were.
InnerPoisonRespected ==
  /\ \A id \in poison.inner' : inner'[id] = {}
  /\ \A t \in Racers :
       /\ (/\ pc[t] \in {"find_one", "update_one"}
           /\ arg[t].id[1] \in Keys \cap poison.inner
           /\ pc'[t] # pc[t]) =>
            (EndsFatal(t) /\ data' = data /\ log' = log)
       /\ (/\ pc[t] = "update"
           /\ Keys \cap poison.inner # {}
           /\ pc'[t] # pc[t]) =>
            /\ pc'[t] = "panicked"
            /\ log' = log
            /\ \A id \in Keys \cap poison.inner : data'[id] = data[id]
       /\ (/\ pc[t] = "scan"
           /\ scan[t] \cap poison.inner # {}
           /\ pc'[t] \notin {"scan", "scan_item"}) =>
            pc'[t] = "panicked"

\* What holds of the operations that come to the outer lock once `faulted`
\* is true: nobody gets the lock, the index stays as it is, a call that
\* starts ends at once with a fatal outcome, and an insert or delete that is
\* between two of its critical sections panics at the next.
OuterPoisonRespected(faulted) ==
  faulted =>
    /\ writer' = {}
    /\ readers' \subseteq readers
    /\ data' = data
    /\ ops' # ops => CallEndsFatal
    /\ \A t \in Racers :
         (/\ \/ pc[t] = "insert_next"
             \/ pc[t] = "delete_next" /\ arg[t].id # <<>>
          /\ pc'[t] # pc[t]) =>
           (pc'[t] = "panicked" /\ log' = log)

====
